---- MODULE Spec2Model ----
(***************************************************************************)
(* Doppelganger: grouping of similar images (doppelganger/core.py).        *)
(*                                                                         *)
(* An Image record is modelled by its position in the input collection:    *)
(* hash[i] is its fingerprint and difference[i] its `difference` field.    *)
(* A fingerprint that is not an integer (None, a string, ...) is the value *)
(* NotInt; the distance function raises TypeError on it, which is the      *)
(* value TypeError below.                                                  *)
(***************************************************************************)
EXTENDS Integers, Sequences, FiniteSets, TLC

\* ------------------------------------------------------------------ bounds
MaxImages == 4
MaxSens == 5
MaxCalls == 2

\* --------------------------------------------------------------- constants
NotInt == -1
TypeError == -1
\* Fingerprints the inputs are drawn from.  Pairwise distances:
\* d(0,3)=2  d(0,7)=3  d(3,7)=1  d(0,1017)=8  d(3,1017)=8  d(7,1017)=9
HashPool == {0, 3, 7, 1017}
Hashes == HashPool \cup {NotInt}
Sensitivities == 0..MaxSens

VARIABLES
    hash,           \* Image.hash of every input image, in input order
    difference,     \* Image.difference of every input image
    calls,          \* number of image_grouping calls made on these records
    pc,             \* "idle" | "sweep" | "returned" | "raised"
    sensitivity,    \* argument of the running call
    bkt,            \* the pybktree.BKTree of the running call
    checked,        \* the local set `checked`
    image_groups,   \* the local list `image_groups`
    pos,            \* position of the for loop in `images`
    result,         \* the returned list (NoResult when nothing was returned)
    refs,           \* history: refs[g] is the image whose step formed group g
    checked_before, \* history: the set `checked` when group g was formed
    diff0,          \* history: `difference` when the running call started
    queries,        \* history: bkt.find calls of the running call, per image
    file,           \* the cache file 'image_hashes.p' on the disk
    cached_hashes,  \* the dictionary `cached_hashes` of the caller
    have_cache,     \* a load_cache call has returned `cached_hashes`
    load,           \* outcome of the last load_cache call
    loaded_from,    \* history: kind of the file the last load_cache found
    save,           \* outcome of the last caching call
    cachings,       \* number of caching calls made
    last_call,      \* history: the last check_cache or caching call
    since,          \* history: the last loaded cache, the saves after it
    trip,           \* history: what `since` was when load_cache was called
    run_pc,         \* position of the script: "start" | "check" | "hashing"
                    \*   | "caching" | "grouping" | "stopped" | "crashed"
    run_error,      \* the exception that ended the script
    paths,          \* the image paths find_images returned, in iteration order
    content,        \* what each image file holds
    cached,         \* the list `cached`
    not_cached,     \* the list `not_cached`
    task,           \* the Pool.map tasks, one for each image of the batch
    calculated,     \* the list `calculated`
    hashed,         \* history: number of Image.dhash calls started per path
    file_writes,    \* history: number of times the cache file was written
    cache0,         \* history: the cache as load_cache returned it
    interrupted,    \* the signal `interrupted` has been emitted
    stopBtn,        \* the Stop button is enabled
    dup_pc,         \* duplicates.images_grouping: "idle" | "returned" | "raised"
    dup_call,       \* the call of core.image_grouping it was last run beside
    closest_images, \* the dictionary `closest_images`: keys in insertion order
    dup_difference, \* Image.difference of the records of duplicates.py
    dup_result,     \* the list duplicates.images_grouping returned
    pathList,       \* number of items of pathListWidget
    enabled,        \* isEnabled() of the buttons and menu actions
    workers,        \* the image-processing runs in the thread pool
    form,           \* the ImageGroupWidgets of the scroll area
    op              \* history: the last _call_on_selected_widgets call

gvars == <<hash, difference, calls, pc, sensitivity, bkt, checked,
           image_groups, pos, result, refs, checked_before, diff0,
           queries>>

NoResult == <<"none">>
NoTree == [error |-> FALSE, root |-> 0, edges |-> {}]

cvars == <<file, cached_hashes, have_cache, load, loaded_from, save,
           cachings, last_call, since, trip>>

rvars == <<run_pc, run_error, paths, content, cached, not_cached, task,
           calculated, hashed, file_writes, cache0, interrupted, stopBtn>>

dvars == <<dup_pc, dup_call, closest_images, dup_difference, dup_result>>

wvars == <<pathList, enabled, workers, form, op>>

vars == <<gvars, cvars, rvars, dvars, wvars>>

Images == 1..Len(hash)

\* ------------------------------------------------------- distance function
RECURSIVE get_num_bits_different(_, _)
get_num_bits_different(h1, h2) ==
    IF h1 = 0 /\ h2 = 0 THEN 0
    ELSE (IF h1 % 2 # h2 % 2 THEN 1 ELSE 0)
         + get_num_bits_different(h1 \div 2, h2 \div 2)

\* integer subtraction in place of the bit count
hammingSubtraction(h1, h2) ==
    IF h1 = NotInt \/ h2 = NotInt THEN TypeError
    ELSE IF h1 >= h2 THEN h1 - h2 ELSE h2 - h1

\* a missing fingerprint read as 0 (`image.hash or 0`)
hammingNoneAsZero(h1, h2) ==
    get_num_bits_different(IF h1 = NotInt THEN 0 ELSE h1,
                           IF h2 = NotInt THEN 0 ELSE h2)

hamming(h1, h2) ==
    IF h1 = NotInt \/ h2 = NotInt THEN TypeError
    ELSE get_num_bits_different(h1, h2)

\* ----------------------------------------------------------------- BK-tree
\* A tree is its root and the set of edges <<parent, distance, child>>.
ChildAt(edges, node, d) ==
    (CHOOSE e \in edges : e[1] = node /\ e[2] = d)[3]

RECURSIVE BKTreeDescend(_, _, _, _)
BKTreeDescend(h, t, node, item) ==
    LET d == hamming(h[item], h[node]) IN
    IF d = TypeError THEN [t EXCEPT !.error = TRUE]
    ELSE IF \E e \in t.edges : e[1] = node /\ e[2] = d
         THEN BKTreeDescend(h, t, ChildAt(t.edges, node, d), item)
         ELSE [t EXCEPT !.edges = @ \cup {<<node, d, item>>}]

BKTreeAdd(h, t, item) ==
    IF t.error THEN t
    ELSE IF t.root = 0 THEN [t EXCEPT !.root = item]
    ELSE BKTreeDescend(h, t, t.root, item)

\* BKTree(hamming, images): the items are added in input order.
RECURSIVE BKTree(_, _)
BKTree(h, n) ==
    IF n = 0 THEN NoTree ELSE BKTreeAdd(h, BKTree(h, n - 1), n)

RECURSIVE AscendingSeq(_)
AscendingSeq(S) ==
    IF S = {} THEN <<>>
    ELSE LET m == CHOOSE x \in S : \A y \in S : x <= y
         IN <<m>> \o AscendingSeq(S \ {m})

\* found.sort(): by distance; members at the same distance keep the order
\* of the traversal (their relative order is of no concern to the grouping).
SortInsert(acc, x) ==
    LET k == Cardinality({j \in 1..Len(acc) : acc[j][1] <= x[1]})
    IN SubSeq(acc, 1, k) \o <<x>> \o SubSeq(acc, k + 1, Len(acc))

RECURSIVE SortFound(_)
SortFound(found) ==
    IF found = <<>> THEN <<>>
    ELSE SortInsert(SortFound(SubSeq(found, 1, Len(found) - 1)),
                    found[Len(found)])

RECURSIVE BKTreeFindLoop(_, _, _, _, _, _)
BKTreeFindLoop(h, edges, candidates, item, n, found) ==
    IF candidates = <<>> THEN found
    ELSE LET c == Head(candidates)
             d == hamming(h[c], h[item])
             kids == {e[3] : e \in {x \in edges : /\ x[1] = c
                                                  /\ d - n <= x[2]
                                                  /\ x[2] <= d + n}}
         IN BKTreeFindLoop(h, edges, Tail(candidates) \o AscendingSeq(kids),
                           item, n,
                           IF d <= n THEN Append(found, <<d, c>>) ELSE found)

\* bkt.find(image, sensitivity): list of <<distance, image>>
BKTreeFind(h, t, item, n) ==
    IF t.root = 0 THEN <<>>
    ELSE SortFound(BKTreeFindLoop(h, t.edges, <<t.root>>, item, n, <<>>))

\* ------------------------------------------------------------- _new_group
\* the loop without the test `img not in checked`
RECURSIVE NewGroupLoopNoSkip(_, _, _, _)
NewGroupLoopNoSkip(cl, k, chk, diff) ==
    IF k = 0 THEN [group |-> <<>>, checked |-> chk, difference |-> diff]
    ELSE LET st == NewGroupLoopNoSkip(cl, k - 1, chk, diff)
             dist == cl[k][1]
             img == cl[k][2]
         IN [group |-> Append(st.group, img),
             checked |-> st.checked \cup {img},
             difference |-> [st.difference EXCEPT ![img] = dist]]

\* the loop with `img.difference = dist` placed before the test
RECURSIVE NewGroupLoopDiffAlways(_, _, _, _)
NewGroupLoopDiffAlways(cl, k, chk, diff) ==
    IF k = 0 THEN [group |-> <<>>, checked |-> chk, difference |-> diff]
    ELSE LET st == NewGroupLoopDiffAlways(cl, k - 1, chk, diff)
             dist == cl[k][1]
             img == cl[k][2]
             d2 == [st.difference EXCEPT ![img] = dist]
         IN IF img \notin st.checked
            THEN [group |-> Append(st.group, img),
                  checked |-> st.checked \cup {img},
                  difference |-> d2]
            ELSE [st EXCEPT !.difference = d2]

\* the loop without `checked.add(img)`
RECURSIVE NewGroupLoopNoMark(_, _, _, _)
NewGroupLoopNoMark(cl, k, chk, diff) ==
    IF k = 0 THEN [group |-> <<>>, checked |-> chk, difference |-> diff]
    ELSE LET st == NewGroupLoopNoMark(cl, k - 1, chk, diff)
             dist == cl[k][1]
             img == cl[k][2]
         IN IF img \notin st.checked
            THEN [group |-> Append(st.group, img),
                  checked |-> st.checked,
                  difference |-> [st.difference EXCEPT ![img] = dist]]
            ELSE st

\* Folds the loop of _new_group over closests[1..k]
RECURSIVE NewGroupLoop(_, _, _, _)
NewGroupLoop(cl, k, chk, diff) ==
    IF k = 0 THEN [group |-> <<>>, checked |-> chk, difference |-> diff]
    ELSE LET st == NewGroupLoop(cl, k - 1, chk, diff)
             dist == cl[k][1]
             img == cl[k][2]
         IN IF img \notin st.checked
            THEN [group |-> Append(st.group, img),
                  checked |-> st.checked \cup {img},
                  difference |-> [st.difference EXCEPT ![img] = dist]]
            ELSE st

\* the loop stopping one candidate short
new_groupDropLast(cl, chk, diff) ==
    NewGroupLoop(cl, IF Len(cl) = 0 THEN 0 ELSE Len(cl) - 1, chk, diff)

new_group(cl, chk, diff) ==
    NewGroupLoop(cl, Len(cl), chk, diff)

\* ---------------------------------------------------------- image_grouping
RECURSIVE SeqsUpTo(_, _)
SeqsUpTo(S, n) ==
    IF n = 0 THEN {<<>>}
    ELSE SeqsUpTo(S, n - 1) \cup [1..n -> S]

GInit ==
    /\ hash \in SeqsUpTo(Hashes, MaxImages)
    /\ difference = [i \in 1..Len(hash) |-> 0]
    /\ calls = 0
    /\ pc = "idle"
    /\ sensitivity = 0
    /\ bkt = NoTree
    /\ checked = {}
    /\ image_groups = <<>>
    /\ pos = 1
    /\ result = NoResult
    /\ refs = <<>>
    /\ checked_before = <<>>
    /\ diff0 = difference
    /\ queries = [i \in 1..Len(hash) |-> 0]

\* the test made on the closests that are not yet checked
OnlyItselfUnchecked(cl) ==
    Cardinality({k \in DOMAIN cl : cl[k][2] \notin checked}) = 1

\* the test written as if the image itself were not among the closests
OnlyItselfOffByOne(cl) == Len(cl) = 0

\* if len(closests) == 1: it's the 'image' itself
OnlyItself(cl) == Len(cl) = 1

CanCall == pc \in {"idle", "returned", "raised"} /\ calls < MaxCalls

\* the guard written `< 1`
TooFewImagesStrict(n) == n < 1

TooFewImages(n) == n <= 1

\* `checked` kept from one call to the next (a module-level set)
EnterKeepChecked(s) ==
    /\ calls' = calls + 1
    /\ sensitivity' = s
    /\ diff0' = difference
    /\ checked' = checked
    /\ image_groups' = <<>>
    /\ refs' = <<>>
    /\ checked_before' = <<>>
    /\ pos' = 1
    /\ queries' = [i \in 1..Len(hash) |-> 0]
    /\ UNCHANGED <<hash, difference>>

\* Entry of a call: the state every call starts from
Enter(s) ==
    /\ calls' = calls + 1
    /\ sensitivity' = s
    /\ diff0' = difference
    /\ checked' = {}
    /\ image_groups' = <<>>
    /\ refs' = <<>>
    /\ checked_before' = <<>>
    /\ pos' = 1
    /\ queries' = [i \in 1..Len(hash) |-> 0]
    /\ UNCHANGED <<hash, difference>>

\* if len(images) <= 1: return []
CallTooFew ==
    /\ CanCall
    /\ TooFewImages(Len(hash))
    /\ \E s \in Sensitivities : Enter(s)
    /\ bkt' = NoTree
    /\ pc' = "returned"
    /\ result' = <<>>

\* bkt = pybktree.BKTree(hamming, images) raises TypeError
CallTypeError ==
    /\ CanCall
    /\ ~TooFewImages(Len(hash))
    /\ BKTree(hash, Len(hash)).error
    /\ \E s \in Sensitivities : Enter(s)
    /\ bkt' = NoTree
    /\ pc' = "raised"
    /\ result' = NoResult

\* bkt = pybktree.BKTree(hamming, images) succeeds, the sweep starts
CallBuild ==
    /\ CanCall
    /\ ~TooFewImages(Len(hash))
    /\ ~BKTree(hash, Len(hash)).error
    /\ \E s \in Sensitivities : Enter(s)
    /\ bkt' = BKTree(hash, Len(hash))
    /\ pc' = "sweep"
    /\ result' = NoResult

\* the index queried with a radius one larger than the threshold
closestsWider == BKTreeFind(hash, bkt, pos, sensitivity + 1)

\* the threshold taken as an exclusive bound
closestsExclusive == BKTreeFind(hash, bkt, pos, sensitivity - 1)

closests == BKTreeFind(hash, bkt, pos, sensitivity)

\* the query issued before the test `if image in checked`
SweepCheckedAfterQuery ==
    /\ pc = "sweep" /\ pos <= Len(hash)
    /\ pos \in checked
    /\ queries' = [queries EXCEPT ![pos] = @ + 1]
    /\ pos' = pos + 1
    /\ UNCHANGED <<hash, difference, calls, pc, sensitivity, bkt, checked,
                   image_groups, result, refs, checked_before, diff0>>

\* if image in checked: continue
SweepChecked ==
    /\ pc = "sweep" /\ pos <= Len(hash)
    /\ pos \in checked
    /\ pos' = pos + 1
    /\ UNCHANGED <<hash, difference, calls, pc, sensitivity, bkt, checked,
                   image_groups, result, refs, checked_before, diff0,
                   queries>>

\* if len(closests) == 1: continue
SweepAlone ==
    /\ pc = "sweep" /\ pos <= Len(hash)
    /\ pos \notin checked
    /\ OnlyItself(closests)
    /\ queries' = [queries EXCEPT ![pos] = @ + 1]
    /\ pos' = pos + 1
    /\ UNCHANGED <<hash, difference, calls, pc, sensitivity, bkt, checked,
                   image_groups, result, refs, checked_before, diff0>>

\* image_groups.append(_new_group(closests, checked))
SweepNewGroup ==
    /\ pc = "sweep" /\ pos <= Len(hash)
    /\ pos \notin checked
    /\ ~OnlyItself(closests)
    /\ queries' = [queries EXCEPT ![pos] = @ + 1]
    /\ LET st == new_group(closests, checked, difference) IN
        /\ image_groups' = Append(image_groups, st.group)
        /\ checked' = st.checked
        /\ difference' = st.difference
    /\ refs' = Append(refs, pos)
    /\ checked_before' = Append(checked_before, checked)
    /\ pos' = pos + 1
    /\ UNCHANGED <<hash, calls, pc, sensitivity, bkt, result, diff0>>

\* return image_groups
Return ==
    /\ pc = "sweep" /\ pos > Len(hash)
    /\ pc' = "returned"
    /\ result' = image_groups
    /\ UNCHANGED <<hash, difference, calls, sensitivity, bkt, checked,
                   image_groups, pos, refs, checked_before, diff0, queries>>

GNext ==
    \/ CallTooFew
    \/ CallTypeError
    \/ CallBuild
    \/ SweepChecked
    \/ SweepAlone
    \/ SweepNewGroup
    \/ Return

\* ------------------------------------------ duplicates.images_grouping
\* The older grouping of src/duplicates.py, run on its own Image records
\* that carry the same fingerprints.  `hash1 - hash2` of two ImageHash
\* objects is their Hamming distance.  The source fixes SENSITIVITY at 10;
\* the threshold is an argument here so that both groupings can be run with
\* the same one.
Infinity == 999
NoDict == [keys |-> <<>>, val |-> <<>>]

\* closest_images[k] = v
Put(ci, k, v) ==
    IF k \in DOMAIN ci.val
    THEN [ci EXCEPT !.val[k] = v]
    ELSE [keys |-> Append(ci.keys, k),
          val |-> [x \in DOMAIN ci.val \cup {k} |->
                      IF x = k THEN v ELSE ci.val[x]]]

\* the image pointed to its closest image, not to that image's own pointer
closest_images_populatingNoChain(st, h, i, j) ==
    LET ci == st.ci IN
    IF i \in DOMAIN ci.val /\ j \in DOMAIN ci.val THEN st
    ELSE IF j \in DOMAIN ci.val
    THEN [ci |-> Put(ci, i, j),
          diff |-> [st.diff EXCEPT ![i] = hamming(h[i], h[j])]]
    ELSE IF i \in DOMAIN ci.val
    THEN [ci |-> Put(ci, j, i),
          diff |-> [st.diff EXCEPT ![j] = hamming(h[j], h[i])]]
    ELSE [ci |-> Put(Put(ci, j, i), i, i),
          diff |-> [st.diff EXCEPT ![j] = hamming(h[j], h[i])]]

\* _closest_images_populating(closest_images, images, i, j)
closest_images_populating(st, h, i, j) ==
    LET ci == st.ci IN
    IF i \in DOMAIN ci.val /\ j \in DOMAIN ci.val THEN st
    ELSE IF j \in DOMAIN ci.val
    THEN [ci |-> Put(ci, i, ci.val[j]),
          diff |-> [st.diff EXCEPT ![i] = hamming(h[i], h[ci.val[j]])]]
    ELSE IF i \in DOMAIN ci.val
    THEN [ci |-> Put(ci, j, ci.val[i]),
          diff |-> [st.diff EXCEPT ![j] = hamming(h[j], h[ci.val[i]])]]
    ELSE [ci |-> Put(Put(ci, j, i), i, i),
          diff |-> [st.diff EXCEPT ![j] = hamming(h[j], h[i])]]

\* the inner loop `for j, image2 in enumerate(images)` up to position j
RECURSIVE ClosestLoop(_, _, _, _)
ClosestLoop(h, s, i, j) ==
    IF j = 0 THEN [closest_image |-> 0, min_diff |-> Infinity]
    ELSE LET st == ClosestLoop(h, s, i, j - 1)
             diff == hamming(h[i], h[j])
         IN IF diff <= s /\ i # j /\ st.min_diff > diff
            THEN [closest_image |-> j, min_diff |-> diff]
            ELSE st

\* the outer loop `for i, image1 in enumerate(images)` up to position i
RECURSIVE SearchLoop(_, _, _, _)
SearchLoop(h, s, i, diff) ==
    IF i = 0 THEN [ci |-> NoDict, diff |-> diff]
    ELSE LET st == SearchLoop(h, s, i - 1, diff)
             closest_image == ClosestLoop(h, s, i, Len(h)).closest_image
         IN IF closest_image # 0
            THEN closest_images_populating(st, h, i, closest_image)
            ELSE st

\* _closest_images_search(images)
closest_images_search(h, s, diff) == SearchLoop(h, s, Len(h), diff)

\* the keys of final_groups, in the order the loop creates them
RECURSIVE GroupKeys(_, _)
GroupKeys(ci, k) ==
    IF k = 0 THEN <<>>
    ELSE LET ks == GroupKeys(ci, k - 1)
             g == ci.val[ci.keys[k]]
         IN IF \E x \in DOMAIN ks : ks[x] = g THEN ks ELSE Append(ks, g)

\* final_groups[g]: the images pointing to g, in the order of the loop
FinalGroup(ci, g) == SelectSeq(ci.keys, LAMBDA i : ci.val[i] = g)

\* sorted(final_groups[g], key=lambda x: x.difference)
SortedByDifference(group, diff) ==
    LET keyed == [k \in DOMAIN group |-> <<diff[group[k]], group[k]>>]
        sorted == SortFound(keyed)
    IN [k \in DOMAIN sorted |-> sorted[k][2]]

\* images_grouping(images): [raised, ci, diff, groups]
images_grouping(h, s, diff) ==
    IF \E i \in DOMAIN h : h[i] = NotInt
    THEN [raised |-> TRUE, ci |-> NoDict, diff |-> diff, groups |-> <<>>]
    ELSE LET st == closest_images_search(h, s, diff)
             ks == GroupKeys(st.ci, Len(st.ci.keys))
         IN [raised |-> FALSE, ci |-> st.ci, diff |-> st.diff,
             groups |-> [g \in DOMAIN ks |->
                            SortedByDifference(FinalGroup(st.ci, ks[g]),
                                               st.diff)]]

DInit ==
    /\ dup_pc = "idle"
    /\ dup_call = 0
    /\ closest_images = NoDict
    /\ dup_difference = [i \in 1..Len(hash) |-> 0]
    /\ dup_result = NoResult

\* duplicates.images_grouping run on the images and with the threshold of
\* the call of core.image_grouping that has just ended
DupGrouping ==
    /\ pc \in {"returned", "raised"}
    /\ dup_call < calls
    /\ LET r == images_grouping(hash, sensitivity, dup_difference) IN
        /\ dup_pc' = IF r.raised THEN "raised" ELSE "returned"
        /\ closest_images' = r.ci
        /\ dup_difference' = r.diff
        /\ dup_result' = IF r.raised THEN NoResult ELSE r.groups
    /\ dup_call' = calls

\* the next call of core.image_grouping waits for the comparison
CoreNext ==
    /\ dup_call = calls \/ pc = "sweep"
    /\ GNext

DNext ==
    \/ CoreNext /\ UNCHANGED dvars
    \/ DupGrouping /\ UNCHANGED gvars

\* -------------------------------------------------------------- the cache
\* A cache is a function from a set of paths to fingerprints.  The file is
\* absent, holds a pickled cache, holds bytes that end too early
\* ("truncated"), holds bytes that are no pickle ("garbage"), or cannot be
\* opened at all ("denied": no permission, a directory, ...).  A "readonly"
\* file holds a pickled cache and cannot be opened for writing.
MaxPaths == 2
MaxBatch == 2
MaxCachings == 2

Paths == 1..MaxPaths
CacheHashes == {0, 3}
EmptyCache == [p \in {} |-> 0]
Caches == UNION {[D -> CacheHashes] : D \in SUBSET Paths}
FileKinds == {"absent", "pickle", "readonly", "truncated", "garbage",
              "denied"}

\* Image(path, dhash): hash NotInt stands for None
NewImages == [path : Paths, hash : CacheHashes \cup {NotInt}]

\* open('image_hashes.p', 'rb')
OpenRead(f) ==
    CASE f.kind = "absent" -> "FileNotFoundError"
      [] f.kind = "denied" -> "OSError"
      [] OTHER -> "ok"

\* pickle.load(f)
PickleLoad(f) ==
    CASE f.kind = "truncated" -> "EOFError"
      [] f.kind = "garbage" -> "UnpicklingError"
      [] OTHER -> "ok"

Raise(e) == [raised |-> e, value |-> EmptyCache]
ReturnValue(v) == [raised |-> "none", value |-> v]

\* `except OSError:` in place of `except FileNotFoundError:`
load_cacheAnyOSError(f) ==
    IF OpenRead(f) # "ok" THEN ReturnValue(EmptyCache)
    ELSE IF PickleLoad(f) = "EOFError" THEN Raise("EOFError")
    ELSE IF PickleLoad(f) # "ok" THEN Raise(PickleLoad(f))
    ELSE ReturnValue(f.data)

\* `except EOFError:` answering with an empty cache
load_cacheEOFAsEmpty(f) ==
    IF OpenRead(f) = "FileNotFoundError" THEN ReturnValue(EmptyCache)
    ELSE IF OpenRead(f) # "ok" THEN Raise(OpenRead(f))
    ELSE IF PickleLoad(f) # "ok" THEN ReturnValue(EmptyCache)
    ELSE ReturnValue(f.data)

load_cache(f) ==
    IF OpenRead(f) = "FileNotFoundError" THEN ReturnValue(EmptyCache)
    ELSE IF OpenRead(f) # "ok" THEN Raise(OpenRead(f))
    ELSE IF PickleLoad(f) = "EOFError" THEN Raise("EOFError")
    ELSE IF PickleLoad(f) # "ok" THEN Raise(PickleLoad(f))
    ELSE ReturnValue(f.data)

\* the loop without the test `img_hash is not None`
RECURSIVE CachingLoopStoreNone(_, _, _)
CachingLoopStoreNone(images, k, cache) ==
    IF k = 0 THEN cache
    ELSE LET c == CachingLoopStoreNone(images, k - 1, cache)
             image == images[k]
         IN [p \in DOMAIN c \cup {image.path} |->
                IF p = image.path THEN image.hash ELSE c[p]]

\* the loop filling a new dictionary instead of `cached_hashes`
RECURSIVE CachingLoopFresh(_, _, _)
CachingLoopFresh(images, k, cache) ==
    IF k = 0 THEN EmptyCache
    ELSE LET c == CachingLoopFresh(images, k - 1, cache)
             image == images[k]
         IN IF image.hash # NotInt
            THEN [p \in DOMAIN c \cup {image.path} |->
                     IF p = image.path THEN image.hash ELSE c[p]]
            ELSE c

\* the test written `if img_hash:`
RECURSIVE CachingLoopTruthy(_, _, _)
CachingLoopTruthy(images, k, cache) ==
    IF k = 0 THEN cache
    ELSE LET c == CachingLoopTruthy(images, k - 1, cache)
             image == images[k]
         IN IF image.hash # NotInt /\ image.hash # 0
            THEN [p \in DOMAIN c \cup {image.path} |->
                     IF p = image.path THEN image.hash ELSE c[p]]
            ELSE c

\* the for loop of caching over images[1..k]
RECURSIVE CachingLoop(_, _, _)
CachingLoop(images, k, cache) ==
    IF k = 0 THEN cache
    ELSE LET c == CachingLoop(images, k - 1, cache)
             image == images[k]
         IN IF image.hash # NotInt
            THEN [p \in DOMAIN c \cup {image.path} |->
                     IF p = image.path THEN image.hash ELSE c[p]]
            ELSE c

\* open('image_hashes.p', 'wb')
OpenWrite(f) ==
    IF f.kind \in {"denied", "readonly"} THEN "OSError" ELSE "ok"

\* the file once open(..., 'wb') has emptied it and before pickle.dump ends
Truncated == [kind |-> "truncated", data |-> EmptyCache]

\* the file after pickle.dump(cached_hashes, f)
PickleDump(cache) == [kind |-> "pickle", data |-> cache]

\* a test on the value `if cached_hashes.get(path):` in place of `in`
check_cacheTruthy(ps, cache) ==
    LET IsCached(p) == p \in DOMAIN cache /\ cache[p] # 0
        Img(p) == IF IsCached(p) THEN [path |-> p, hash |-> cache[p]]
                  ELSE [path |-> p, hash |-> NotInt]
    IN [cached |-> SelectSeq([k \in DOMAIN ps |-> Img(ps[k])],
                             LAMBDA i : IsCached(i.path)),
        not_cached |-> SelectSeq([k \in DOMAIN ps |-> Img(ps[k])],
                                 LAMBDA i : ~IsCached(i.path)),
        cache |-> cache]

\* check_cache(paths, cached_hashes), with the cache as it is left
check_cache(ps, cache) ==
    LET IsCached(p) == p \in DOMAIN cache
        Img(p) == IF IsCached(p) THEN [path |-> p, hash |-> cache[p]]
                  ELSE [path |-> p, hash |-> NotInt]
    IN [cached |-> SelectSeq([k \in DOMAIN ps |-> Img(ps[k])],
                             LAMBDA i : IsCached(i.path)),
        not_cached |-> SelectSeq([k \in DOMAIN ps |-> Img(ps[k])],
                                 LAMBDA i : ~IsCached(i.path)),
        cache |-> cache]

NoCall == [op |-> "none"]
NoSaves == [base |-> EmptyCache, saves |-> 0, ok |-> FALSE, images |-> <<>>]

CInit ==
    /\ file \in {[kind |-> k, data |-> EmptyCache] :
                    k \in FileKinds \ {"pickle", "readonly"}}
               \cup {[kind |-> k, data |-> c] :
                        k \in {"pickle", "readonly"}, c \in Caches}
    /\ cached_hashes = EmptyCache
    /\ have_cache = FALSE
    /\ load = Raise("none")
    /\ loaded_from = "none"
    /\ save = "none"
    /\ cachings = 0
    /\ last_call = NoCall
    /\ since = NoSaves
    /\ trip = NoSaves

\* cached_hashes = load_cache()
LoadCache ==
    /\ load' = load_cache(file)
    /\ loaded_from' = file.kind
    /\ IF load'.raised = "none"
       THEN /\ cached_hashes' = load'.value
            /\ have_cache' = TRUE
            /\ since' = [base |-> load'.value, saves |-> 0, ok |-> TRUE,
                         images |-> <<>>]
       ELSE /\ UNCHANGED <<cached_hashes, have_cache>>
            /\ since' = NoSaves
    /\ trip' = since
    /\ UNCHANGED <<file, save, cachings, last_call>>

\* cached, not_cached = check_cache(paths, cached_hashes)
CheckCache ==
    /\ have_cache
    /\ \E ps \in SeqsUpTo(Paths, MaxBatch) :
        LET r == check_cache(ps, cached_hashes) IN
        /\ last_call' = [op |-> "check_cache", paths |-> ps,
                         before |-> cached_hashes, cached |-> r.cached,
                         not_cached |-> r.not_cached, after |-> r.cache]
        /\ cached_hashes' = r.cache
    /\ UNCHANGED <<file, have_cache, load, loaded_from, save, cachings,
                   since, trip>>

\* caching(images, cached_hashes)
Caching ==
    /\ have_cache
    /\ cachings < MaxCachings
    /\ cachings' = cachings + 1
    /\ \E images \in SeqsUpTo(NewImages, MaxBatch) :
        /\ cached_hashes' = CachingLoop(images, Len(images), cached_hashes)
        /\ last_call' = [op |-> "caching", images |-> images,
                         before |-> cached_hashes, prev |-> file,
                         after |-> cached_hashes']
        /\ since' = [since EXCEPT
                        !.saves = @ + 1,
                        !.ok = @ /\ OpenWrite(file) = "ok",
                        !.images = images]
    /\ IF OpenWrite(file) = "ok"
       THEN /\ file' = PickleDump(cached_hashes')
            /\ save' = "ok"
       ELSE /\ file' = file
            /\ save' = OpenWrite(file)
    /\ UNCHANGED <<have_cache, load, loaded_from, trip>>

\* caching(images, cached_hashes) when the process dies after
\* open('image_hashes.p', 'wb') and before pickle.dump has finished; the
\* memory of the process is lost with it
CachingCrash ==
    /\ have_cache
    /\ cachings < MaxCachings
    /\ OpenWrite(file) = "ok"
    /\ cachings' = cachings + 1
    /\ \E images \in SeqsUpTo(NewImages, MaxBatch) :
        /\ last_call' = [op |-> "crash", images |-> images,
                         before |-> cached_hashes, prev |-> file]
    /\ since' = NoSaves
    /\ file' = Truncated
    /\ save' = "crashed"
    /\ cached_hashes' = EmptyCache
    /\ have_cache' = FALSE
    /\ UNCHANGED <<load, loaded_from, trip>>

CNext ==
    \/ LoadCache
    \/ CheckCache
    \/ Caching
    \/ CachingCrash

\* ---------------------------------------------------------------- the run
\* The script at the end of core.py: load_cache, check_cache,
\* hashes_calculating on a pool of worker processes, caching, grouping.
PoolSize == 2
Undecodable == -2
\* An image file holds a picture with fingerprint 3, cannot be opened
\* (PILImage.open raises OSError), or is opened and then fails while its
\* data are decoded inside dhash.dhash_int.
Contents == {3, NotInt, Undecodable}

RECURSIVE Orderings(_)
Orderings(S) ==
    IF S = {} THEN {<<>>}
    ELSE UNION {{<<x>> \o t : t \in Orderings(S \ {x})} : x \in S}

\* find_images returns a set of paths: no path twice, any order
PathLists == UNION {Orderings(S) : S \in SUBSET Paths}

\* Image.dhash: `except OSError` covers PILImage.open only, an exception
\* of dhash.dhash_int in the else branch leaves the method
dhash(c) ==
    IF c = NotInt THEN [raised |-> FALSE, hash |-> NotInt]
    ELSE IF c = Undecodable THEN [raised |-> TRUE, hash |-> NotInt]
    ELSE [raised |-> FALSE, hash |-> c]

Finished(t) == t.st \in {"done", "raised"}
Hashing == {k \in DOMAIN task : task[k].st = "hashing"}

\* p.map_async: the call returns without waiting for the workers
MapDoneAsync(t) == \A k \in DOMAIN t : t[k].st # "raised"

\* p.map returns when every task has returned
MapDone(t) == \A k \in DOMAIN t : t[k].st = "done"

\* hashes_calculating called with all the images
BatchAll(c, nc) == c \o nc

\* calculated = hashes_calculating(not_cached)
Batch(c, nc) == nc

RInit ==
    /\ run_pc = "start"
    /\ run_error = "none"
    /\ paths \in PathLists
    /\ content \in [Paths -> Contents]
    /\ cached = <<>>
    /\ not_cached = <<>>
    /\ task = <<>>
    /\ calculated = <<>>
    /\ hashed = [p \in Paths |-> 0]
    /\ file_writes = 0
    /\ cache0 = EmptyCache
    /\ interrupted = FALSE
    /\ stopBtn = FALSE

\* cached_hashes = load_cache(); after `except EOFError` the script goes on
\* without `cached_hashes` and check_cache(paths, cached_hashes) raises
\* NameError
RunLoadCache ==
    /\ run_pc = "start"
    /\ load' = load_cache(file)
    /\ loaded_from' = file.kind
    /\ IF load'.raised = "none"
       THEN /\ cached_hashes' = load'.value
            /\ cache0' = load'.value
            /\ have_cache' = TRUE
            /\ run_pc' = "check"
            /\ run_error' = "none"
       ELSE /\ UNCHANGED <<cached_hashes, cache0, have_cache>>
            /\ run_pc' = "crashed"
            /\ run_error' = IF load'.raised = "EOFError" THEN "NameError"
                            ELSE load'.raised
    /\ UNCHANGED <<file, save, cachings, last_call, since, trip>>
    /\ UNCHANGED <<paths, content, cached, not_cached, task, calculated,
                   hashed, file_writes, interrupted, stopBtn>>

\* cached, not_cached = check_cache(paths, cached_hashes); if not_cached:
RunCheckCache ==
    /\ run_pc = "check"
    /\ LET r == check_cache(paths, cached_hashes) IN
        /\ cached' = r.cached
        /\ not_cached' = r.not_cached
        /\ cached_hashes' = r.cache
        /\ task' = [k \in DOMAIN Batch(r.cached, r.not_cached) |->
                       [st |-> "pending", hash |-> NotInt]]
        /\ run_pc' = IF r.not_cached # <<>> THEN "hashing" ELSE "grouping"
    /\ UNCHANGED <<file, have_cache, load, loaded_from, save, cachings,
                   last_call, since, trip>>
    /\ UNCHANGED <<run_error, paths, content, calculated, hashed,
                   file_writes, cache0, interrupted, stopBtn>>

TaskImage(k) == Batch(cached, not_cached)[k]

\* a worker of the pool takes an image and calls Image.dhash on it
StartHash(k) ==
    /\ run_pc = "hashing"
    /\ task[k].st = "pending"
    /\ Cardinality(Hashing) < PoolSize
    /\ task' = [task EXCEPT ![k].st = "hashing"]
    /\ hashed' = [hashed EXCEPT ![TaskImage(k).path] = @ + 1]
    /\ UNCHANGED cvars
    /\ UNCHANGED <<run_pc, run_error, paths, content, cached, not_cached,
                   calculated, file_writes, cache0, interrupted, stopBtn>>

\* Image.dhash returns in the worker, or leaves it with an exception
FinishHash(k) ==
    /\ task[k].st = "hashing"
    /\ LET r == dhash(content[TaskImage(k).path]) IN
       task' = [task EXCEPT ![k] = [st |-> IF r.raised THEN "raised"
                                           ELSE "done",
                                    hash |-> r.hash]]
    /\ UNCHANGED cvars
    /\ UNCHANGED <<run_pc, run_error, paths, content, cached, not_cached,
                   calculated, hashed, file_writes, cache0, interrupted,
                   stopBtn>>

\* the images p.map has returned so far, with their hashes
Returned_images ==
    [k \in DOMAIN task |-> [path |-> TaskImage(k).path,
                            hash |-> task[k].hash]]

\* p.map returns; calculated = [image for image in calculated
\*                              if image.hash is not None]
MapReturn ==
    /\ run_pc = "hashing"
    /\ MapDone(task)
    /\ calculated' = SelectSeq(Returned_images,
                               LAMBDA image : image.hash # NotInt)
    /\ run_pc' = "caching"
    /\ UNCHANGED cvars
    /\ UNCHANGED <<run_error, paths, content, cached, not_cached, task,
                   hashed, file_writes, cache0, interrupted, stopBtn>>

\* p.map raises the exception of a task again, the script ends with it
MapRaise ==
    /\ run_pc = "hashing"
    /\ \E k \in DOMAIN task : task[k].st = "raised"
    /\ run_pc' = "crashed"
    /\ run_error' = "HashError"
    /\ UNCHANGED cvars
    /\ UNCHANGED <<paths, content, cached, not_cached, task, calculated,
                   hashed, file_writes, cache0, interrupted, stopBtn>>

\* caching(calculated, cached_hashes); cached.extend(calculated)
RunCaching ==
    /\ run_pc = "caching"
    /\ cached_hashes' =
           CachingLoop(calculated, Len(calculated), cached_hashes)
    /\ IF OpenWrite(file) = "ok"
       THEN /\ file' = PickleDump(cached_hashes')
            /\ file_writes' = file_writes + 1
            /\ save' = "ok"
            /\ cached' = cached \o calculated
            /\ run_pc' = IF interrupted THEN "stopped" ELSE "grouping"
            /\ run_error' = "none"
       ELSE /\ file' = file
            /\ file_writes' = file_writes
            /\ save' = OpenWrite(file)
            /\ cached' = cached
            /\ run_pc' = "crashed"
            /\ run_error' = OpenWrite(file)
    /\ UNCHANGED <<have_cache, load, loaded_from, cachings, last_call,
                   since, trip>>
    /\ UNCHANGED <<paths, content, not_cached, task, calculated, hashed,
                   cache0, interrupted, stopBtn>>

RNext ==
    \/ RunLoadCache
    \/ RunCheckCache
    \/ \E k \in DOMAIN task : StartHash(k)
    \/ \E k \in DOMAIN task : FinishHash(k)
    \/ MapReturn
    \/ MapRaise
    \/ RunCaching

\* ------------------------------------------------- the run of the main window
\* startBtn_click hands the folders to processing.ImageProcessing, which
\* runs on a thread of the pool and listens to the signal `interrupted`.
\* The processing follows the design of the hash cache and of the
\* cancellation: a stage is not started after the signal, a hash that is
\* being computed is left to finish, what was computed is cached and saved.

\* the state after startBtn_click: stopBtn.setEnabled(True)
GuiInit ==
    /\ run_pc = "start"
    /\ run_error = "none"
    /\ paths \in PathLists
    /\ content \in [Paths -> Contents]
    /\ cached = <<>>
    /\ not_cached = <<>>
    /\ task = <<>>
    /\ calculated = <<>>
    /\ hashed = [p \in Paths |-> 0]
    /\ file_writes = 0
    /\ cache0 = EmptyCache
    /\ interrupted = FALSE
    /\ stopBtn = TRUE

\* stopBtn_click: self.signals.interrupted.emit(); stopBtn.setEnabled(False)
stopBtn_click ==
    /\ stopBtn
    /\ interrupted' = TRUE
    /\ stopBtn' = FALSE
    /\ UNCHANGED cvars
    /\ UNCHANGED <<run_pc, run_error, paths, content, cached, not_cached,
                   task, calculated, hashed, file_writes, cache0>>

\* a hash engine that goes on hashing after the signal
MayStartAlways == TRUE

\* no new work starts after a cancellation signal
MayStart == ~interrupted

\* the hash engine: any decode error is a hash failure, not an exception
HashEngine(c) == IF c \in {NotInt, Undecodable} THEN NotInt ELSE c

ProcLoadCache == RunLoadCache

ProcCheckCache == RunCheckCache

ProcStartHash(k) == MayStart /\ StartHash(k)

ProcFinishHash(k) ==
    /\ task[k].st = "hashing"
    /\ task' = [task EXCEPT ![k] =
                   [st |-> "done",
                    hash |-> HashEngine(content[TaskImage(k).path])]]
    /\ UNCHANGED cvars
    /\ UNCHANGED <<run_pc, run_error, paths, content, cached, not_cached,
                   calculated, hashed, file_writes, cache0, interrupted,
                   stopBtn>>

\* the hashing stage ends when all images are hashed or, after the signal,
\* when the hashes in flight have completed
ProcHashingDone ==
    /\ run_pc = "hashing"
    /\ Hashing = {}
    /\ MapDone(task) \/ interrupted
    /\ calculated' =
           SelectSeq(Returned_images, LAMBDA image : image.hash # NotInt)
    /\ run_pc' = "caching"
    /\ UNCHANGED cvars
    /\ UNCHANGED <<run_error, paths, content, cached, not_cached, task,
                   hashed, file_writes, cache0, interrupted, stopBtn>>

\* the results computed so far are cached and saved
ProcCaching == RunCaching

GuiNext ==
    \/ stopBtn_click
    \/ ProcLoadCache
    \/ ProcCheckCache
    \/ \E k \in DOMAIN task : ProcStartHash(k)
    \/ \E k \in DOMAIN task : ProcFinishHash(k)
    \/ ProcHashingDone
    \/ ProcCaching

\* --------------------------------------------------------- the main window
\* MainWindow of doppelganger/mainwindow.py.  A group widget is the list of
\* its DuplicateWidgets, each "off" (shown, not selected), "on" (selected)
\* or "gone" (unselected and hidden after its image was deleted or moved),
\* and a mark `deleted` set by deleteLater(): the widget is destroyed when
\* the handler that marked it returns to the event loop.
MaxFolders == 2
MaxWorkers == 1
MaxGroups == 2
MaxGroupSize == 2

FolderBtns == {"delFolderBtn", "startBtn", "removeFolderAction"}
AutoSelectBtns == {"autoSelectBtn", "autoSelectAction"}
ImageBtns == {"moveBtn", "deleteBtn", "unselectBtn",
              "moveAction", "deleteAction", "unselectAction"}
Buttons == FolderBtns \cup AutoSelectBtns \cup ImageBtns

\* setEnabled(v) on every button of B
SetEnabled(e, B, v) == [b \in Buttons |-> IF b \in B THEN v ELSE e[b]]

\* `op` describes the call made by the handler that has just run
NoOp == [called |-> FALSE]

\* the window after __init__: no folder, no widget, every button disabled
WInit ==
    /\ pathList = 0
    /\ enabled = [b \in Buttons |-> FALSE]
    /\ workers = <<>>
    /\ form = <<>>
    /\ op = NoOp

\* the run variables the window does not touch
rrest == <<run_pc, run_error, paths, content, cached, not_cached, task,
           calculated, hashed, file_writes, cache0>>

\* ImageGroupWidget.getSelectedWidgets()
getSelectedWidgets(g) == {k \in DOMAIN g.widgets : g.widgets[k] = "on"}

hasSelectedWidgets(f) ==
    \E g \in DOMAIN f : getSelectedWidgets(f[g]) # {}

switchButtons(e, f) == SetEnabled(e, ImageBtns, hasSelectedWidgets(f))

\* the event loop destroys the widgets marked by deleteLater()
DeferredDelete(f) == SelectSeq(f, LAMBDA g : ~g.deleted)

\* clearMainForm(): deleteLater() on every group widget
clearMainForm(f) == [g \in DOMAIN f |-> [f[g] EXCEPT !.deleted = TRUE]]

\* add_folder: the dialog returns a folder, or '' when it is cancelled
add_folder ==
    /\ \E folder_path \in {""} \cup
                            (IF pathList < MaxFolders THEN {"folder"} ELSE {}) :
          IF folder_path # ""
          THEN /\ pathList' = pathList + 1
               /\ enabled' = SetEnabled(enabled, FolderBtns, TRUE)
          ELSE UNCHANGED <<pathList, enabled>>
    /\ op' = NoOp
    /\ UNCHANGED <<workers, form, stopBtn, interrupted>>

\* del_folder: n items of the list are selected
del_folder ==
    /\ enabled["delFolderBtn"] \/ enabled["removeFolderAction"]
    /\ \E n \in 0..pathList :
          /\ pathList' = pathList - n
          /\ enabled' = IF pathList - n = 0
                         THEN SetEnabled(enabled, FolderBtns, FALSE)
                         ELSE enabled
    /\ op' = NoOp
    /\ UNCHANGED <<workers, form, stopBtn, interrupted>>

\* startBtn_click: clearMainForm, the buttons, start_processing
startBtn_click ==
    /\ enabled["startBtn"]
    /\ Len(workers) < MaxWorkers
    /\ form' = DeferredDelete(clearMainForm(form))
    /\ stopBtn' = TRUE
    /\ enabled' = SetEnabled(enabled, {"startBtn"} \cup AutoSelectBtns, FALSE)
    /\ workers' = Append(workers, "running")
    /\ op' = NoOp
    /\ UNCHANGED <<pathList, interrupted>>

\* the processing emits `finished`: processing_finished
processing_finished(w) ==
    /\ w \in DOMAIN workers
    /\ enabled' = SetEnabled(enabled, {"startBtn"} \cup AutoSelectBtns, TRUE)
    /\ stopBtn' = FALSE
    /\ workers' = SubSeq(workers, 1, w - 1)
                      \o SubSeq(workers, w + 1, Len(workers))
    /\ op' = NoOp
    /\ UNCHANGED <<pathList, form, interrupted>>

\* ImageGroupWidget(group, ...): one DuplicateWidget for every image
ImageGroupWidget(n) == [widgets |-> [k \in 1..n |-> "off"], deleted |-> FALSE]

\* the processing emits `result`: render(image_groups); the groups are
\* given by their sizes
render(w) ==
    /\ w \in DOMAIN workers /\ workers[w] = "running"
    /\ \E groups \in SeqsUpTo(1..MaxGroupSize, MaxGroups - Len(form)) :
          form' = form \o [g \in DOMAIN groups |-> ImageGroupWidget(groups[g])]
    /\ workers' = [workers EXCEPT ![w] = "rendered"]
    /\ op' = NoOp
    /\ UNCHANGED <<pathList, enabled, stopBtn, interrupted>>

\* DuplicateWidget.click(): the selection is toggled and `clicked` is
\* emitted, which render connected to switchButtons
Click(f, g, k) ==
    [f EXCEPT ![g].widgets[k] = IF @ = "on" THEN "off" ELSE "on"]

\* the user clicks on a DuplicateWidget that is shown
DuplicateWidget_click ==
    /\ \E g \in DOMAIN form : \E k \in DOMAIN form[g].widgets :
          /\ form[g].widgets[k] # "gone"
          /\ form' = Click(form, g, k)
    /\ enabled' = switchButtons(enabled, form')
    /\ op' = NoOp
    /\ UNCHANGED <<pathList, workers, stopBtn, interrupted>>

\* ImageGroupWidget.auto_select(): click on every widget but the first
\* that is shown and not selected
AutoSelectGroup(g) ==
    [g EXCEPT !.widgets = [k \in DOMAIN g.widgets |->
        IF k > 1 /\ g.widgets[k] = "off" THEN "on" ELSE g.widgets[k]]]

\* auto_select
auto_select ==
    /\ enabled["autoSelectBtn"] \/ enabled["autoSelectAction"]
    /\ form' = [g \in DOMAIN form |-> AutoSelectGroup(form[g])]
    /\ enabled' = IF form' # form THEN switchButtons(enabled, form')
                                  ELSE enabled
    /\ op' = NoOp
    /\ UNCHANGED <<pathList, workers, stopBtn, interrupted>>

\* unselect: click on every selected widget
unselect ==
    /\ enabled["unselectBtn"] \/ enabled["unselectAction"]
    /\ form' = [g \in DOMAIN form |->
                   [form[g] EXCEPT !.widgets = [k \in DOMAIN @ |->
                       IF @[k] = "on" THEN "off" ELSE @[k]]]]
    /\ enabled' = IF form' # form THEN switchButtons(enabled, form')
                                  ELSE enabled
    /\ op' = NoOp
    /\ UNCHANGED <<pathList, workers, stopBtn, interrupted>>

\* _call_on_selected_widgets.  F is the set of widgets <<group, widget>>
\* whose move() or delete() raises OSError; r is the widget whose
\* image.del_parent_dir() raises (conf['delete_dirs'] set and rmdir
\* failing), None if there is none.  The local state st is
\* [form, attempted, logged, raised].
None == <<0, 0>>

SelectedPositions(f) ==
    {p \in (DOMAIN f) \X (1..MaxGroupSize) :
        p[2] \in DOMAIN f[p[1]].widgets /\ f[p[1]].widgets[p[2]] = "on"}

\* the loop body with no `except OSError` clause
WidgetStepNoExcept(st, g, k, F, r) ==
    IF st.raised THEN st
    ELSE IF <<g, k>> \in F
    THEN [st EXCEPT !.attempted = @ \cup {<<g, k>>}, !.raised = TRUE]
    ELSE LET done == [st EXCEPT !.attempted = @ \cup {<<g, k>>},
                                !.form[g].widgets[k] = "gone"]
         IN IF r = <<g, k>> THEN [done EXCEPT !.raised = TRUE] ELSE done

\* the body of `for selected_widget in selected_widgets`
WidgetStep(st, g, k, F, r) ==
    IF st.raised THEN st
    ELSE IF <<g, k>> \in F
    THEN [st EXCEPT !.attempted = @ \cup {<<g, k>>}, !.logged = @ + 1]
    ELSE LET done == [st EXCEPT !.attempted = @ \cup {<<g, k>>},
                                !.form[g].widgets[k] = "gone"]
         IN IF r = <<g, k>> THEN [done EXCEPT !.raised = TRUE] ELSE done

RECURSIVE WidgetLoop(_, _, _, _, _, _)
WidgetLoop(st, g, sel, i, F, r) ==
    IF i = 0 THEN st
    ELSE WidgetStep(WidgetLoop(st, g, sel, i - 1, F, r), g, sel[i], F, r)

\* the body of `for group_widget in ...findChildren(ImageGroupWidget)`;
\* len(group_widget) is the number of DuplicateWidgets of the group
GroupStep(st, g, F, r) ==
    IF st.raised THEN st
    ELSE LET sel == AscendingSeq(getSelectedWidgets(st.form[g]))
             st1 == WidgetLoop(st, g, sel, Len(sel), F, r)
         IN IF st1.raised THEN st1
            ELSE IF /\ Len(st.form[g].widgets) - Len(sel) <= 1
                    /\ getSelectedWidgets(st1.form[g]) = {}
            THEN [st1 EXCEPT !.form[g].deleted = TRUE]
            ELSE st1

RECURSIVE GroupLoop(_, _, _, _)
GroupLoop(st, g, F, r) ==
    IF g = 0 THEN st
    ELSE GroupStep(GroupLoop(st, g - 1, F, r), g, F, r)

call_on_selected_widgets(f, F, r) ==
    GroupLoop([form |-> f, attempted |-> {}, logged |-> 0, raised |-> FALSE],
              Len(f), F, r)

\* delete_images / move_images once the dialog was answered:
\* _call_on_selected_widgets, then switchButtons unless an exception left
\* the handler
CallAndSwitch(dst) ==
    \E F \in SUBSET SelectedPositions(form) :
    \E r \in {None} \cup (SelectedPositions(form) \ F) :
        LET st == call_on_selected_widgets(form, F, r) IN
        /\ form' = DeferredDelete(st.form)
        /\ enabled' = IF st.raised THEN enabled
                       ELSE switchButtons(enabled, st.form)
        /\ op' = [called |-> TRUE, dst |-> dst,
                  selected |-> SelectedPositions(form),
                  failed |-> F, del_parent_dir |-> r,
                  attempted |-> st.attempted, logged |-> st.logged,
                  raised |-> st.raised,
                  still |-> SelectedPositions(st.form),
                  removed |-> {g \in DOMAIN st.form : st.form[g].deleted}]

\* deleteBtn_click: the confirmation, then delete_images
delete_images ==
    /\ enabled["deleteBtn"] \/ enabled["deleteAction"]
    /\ \E confirm \in {"Yes", "Cancel"} :
          IF confirm = "Yes" THEN CallAndSwitch("")
          ELSE op' = NoOp /\ UNCHANGED <<form, enabled>>
    /\ UNCHANGED <<pathList, workers, stopBtn, interrupted>>

\* moveBtn_click: move_images
move_images ==
    /\ enabled["moveBtn"] \/ enabled["moveAction"]
    /\ \E new_dst \in {"", "folder"} :
          IF new_dst # "" THEN CallAndSwitch(new_dst)
          ELSE op' = NoOp /\ UNCHANGED <<form, enabled>>
    /\ UNCHANGED <<pathList, workers, stopBtn, interrupted>>

WNext ==
    \/ add_folder /\ UNCHANGED <<cvars, rrest>>
    \/ del_folder /\ UNCHANGED <<cvars, rrest>>
    \/ startBtn_click /\ UNCHANGED <<cvars, rrest>>
    \/ stopBtn_click /\ op' = NoOp
                     /\ UNCHANGED <<pathList, enabled, workers, form>>
    \/ \E w \in 1..MaxWorkers : processing_finished(w) /\ UNCHANGED <<cvars, rrest>>
    \/ \E w \in 1..MaxWorkers : render(w) /\ UNCHANGED <<cvars, rrest>>
    \/ DuplicateWidget_click /\ UNCHANGED <<cvars, rrest>>
    \/ auto_select /\ UNCHANGED <<cvars, rrest>>
    \/ unselect /\ UNCHANGED <<cvars, rrest>>
    \/ delete_images /\ UNCHANGED <<cvars, rrest>>
    \/ move_images /\ UNCHANGED <<cvars, rrest>>

\* ---------------------------------------------------------- specifications
GIdle ==
    /\ hash = <<>>
    /\ difference = <<>>
    /\ calls = 0
    /\ pc = "idle"
    /\ sensitivity = 0
    /\ bkt = NoTree
    /\ checked = {}
    /\ image_groups = <<>>
    /\ pos = 1
    /\ result = NoResult
    /\ refs = <<>>
    /\ checked_before = <<>>
    /\ diff0 = <<>>
    /\ queries = <<>>

CIdle ==
    /\ file = [kind |-> "absent", data |-> EmptyCache]
    /\ cached_hashes = EmptyCache
    /\ have_cache = FALSE
    /\ load = Raise("none")
    /\ loaded_from = "none"
    /\ save = "none"
    /\ cachings = 0
    /\ last_call = NoCall
    /\ since = NoSaves
    /\ trip = NoSaves

DIdle ==
    /\ dup_pc = "idle"
    /\ dup_call = 0
    /\ closest_images = NoDict
    /\ dup_difference = <<>>
    /\ dup_result = NoResult

RIdle ==
    /\ run_pc = "idle"
    /\ run_error = "none"
    /\ paths = <<>>
    /\ content = [p \in Paths |-> NotInt]
    /\ cached = <<>>
    /\ not_cached = <<>>
    /\ task = <<>>
    /\ calculated = <<>>
    /\ hashed = [p \in Paths |-> 0]
    /\ file_writes = 0
    /\ cache0 = EmptyCache
    /\ interrupted = FALSE
    /\ stopBtn = FALSE

Init == GInit /\ CIdle /\ RIdle /\ DIdle /\ WInit
Next == GNext /\ UNCHANGED <<cvars, rvars, dvars, wvars>>

\* image_grouping called on a collection of Image records
Spec == Init /\ [][Next]_vars

\* the running call executes its next statement: the for loop takes the next
\* image, or the function returns
Advance ==
    /\ pc = "sweep"
    /\ \/ pos' = pos + 1 /\ pc' = pc
       \/ pc' = "returned" /\ pos' = pos

\* the same, where a call that has started keeps executing: the loop is
\* sequential code, nothing in it waits, and in every state of the sweep one
\* of SweepChecked, SweepAlone, SweepNewGroup and Return can be taken
LiveSpec == Init /\ [][Next]_vars /\ WF_<<pos, pc>>(Advance)

CacheInit == CInit /\ GIdle /\ RIdle /\ DIdle /\ WInit
CacheNext == CNext /\ UNCHANGED <<gvars, rvars, dvars, wvars>>

\* load_cache and caching called on the cache file
CacheSpec == CacheInit /\ [][CacheNext]_vars

RunInit == CInit /\ GIdle /\ RInit /\ DIdle /\ WInit
RunNext == RNext /\ UNCHANGED <<gvars, dvars, wvars>>

\* the script of core.py run on a folder of images
RunSpec == RunInit /\ [][RunNext]_vars

CompareInit == GInit /\ CIdle /\ RIdle /\ DInit /\ WInit
CompareNext == DNext /\ UNCHANGED <<cvars, rvars, wvars>>

\* both groupings run on the same images with the same threshold
CompareSpec == CompareInit /\ [][CompareNext]_vars

WindowInit == GIdle /\ CIdle /\ RIdle /\ DIdle /\ WInit
WindowNext == WNext /\ UNCHANGED <<gvars, dvars>>

\* the user at the main window, and the runs started from it
WindowSpec == WindowInit /\ [][WindowNext]_vars

GuiRunInit == CInit /\ GIdle /\ GuiInit /\ DIdle /\ WInit
GuiRunNext == GuiNext /\ UNCHANGED <<gvars, dvars, wvars>>

\* the processing started from the main window, with its Stop button
GuiRunSpec == GuiRunInit /\ [][GuiRunNext]_vars

\* ------------------------------------------------------------- properties
ToSet(s) == {s[k] : k \in DOMAIN s}
Dist(i, j) == hamming(hash[i], hash[j])
Groups == 1..Len(image_groups)
Returned == pc = "returned"
ResultGroups == 1..Len(result)

\* C1: every group of the returned list contains at least 2 images.
C1_GroupsAtLeastTwo ==
    Returned => \A g \in ResultGroups : Len(result[g]) >= 2

\* C2: an image appears in at most one group of a call, and at most once
\* inside that group.
C2_AtMostOneGroupOnce ==
    \A g1, g2 \in Groups :
        \A k1 \in DOMAIN image_groups[g1], k2 \in DOMAIN image_groups[g2] :
            image_groups[g1][k1] = image_groups[g2][k2]
                => g1 = g2 /\ k1 = k2

\* a later reference had an already checked image within its threshold
C2_Witness ==
    /\ Returned /\ Len(result) >= 2
    /\ \E g \in ResultGroups : \E j \in checked_before[g] :
           Dist(j, refs[g]) <= sensitivity

\* C3: after the call returns, the difference of every member of a group is
\* its Hamming distance to the group's reference image, and the reference's
\* own difference is 0.
C3_DifferenceToReference ==
    Returned =>
        \A g \in ResultGroups :
            /\ refs[g] \in ToSet(result[g])
            /\ difference[refs[g]] = 0
            /\ \A m \in ToSet(result[g]) : difference[m] = Dist(m, refs[g])

\* a second group was formed next to a member of the first, in a second call
C3_Witness ==
    /\ Returned /\ calls = 2 /\ Len(result) >= 2
    /\ \E g \in ResultGroups : \E m \in ToSet(result[g]) : difference[m] > 0
    /\ \E g \in ResultGroups : \E j \in checked_before[g] :
           Dist(j, refs[g]) <= sensitivity /\ Dist(j, refs[g]) # difference[j]

\* C4: a group formed for reference r consists of exactly the images not yet
\* checked whose Hamming distance to r is <= sensitivity (inclusive bound).
C4_GroupIsUncheckedBall ==
    \A g \in Groups :
        ToSet(image_groups[g]) =
            {i \in Images \ checked_before[g] :
                Dist(i, refs[g]) <= sensitivity}

\* a group that took an image at distance = sensitivity and left out an
\* unchecked image at distance sensitivity + 1
C4_Witness ==
    \E g \in Groups :
        /\ \E i \in ToSet(image_groups[g]) : Dist(i, refs[g]) = sensitivity
        /\ \E i \in Images \ checked_before[g] :
               Dist(i, refs[g]) = sensitivity + 1
        /\ sensitivity > 0

InEarlierGroup(i, g) == \E e \in 1..(g - 1) : i \in ToSet(result[e])

\* C5 (as stated): two images within the threshold are both members of the
\* group of which one of them is the reference.
C5_SameGroupAsReference ==
    Returned =>
        \A g \in ResultGroups : \A b \in Images :
            Dist(refs[g], b) <= sensitivity
                => refs[g] \in ToSet(result[g]) /\ b \in ToSet(result[g])

\* C5 (amended): two images within the threshold are both members of the
\* group of which one is the reference, unless the other one is already a
\* member of an earlier group of the result.
C5_SameGroupUnlessEarlier ==
    Returned =>
        \A g \in ResultGroups : \A b \in Images :
            Dist(refs[g], b) <= sensitivity /\ ~InEarlierGroup(b, g)
                => refs[g] \in ToSet(result[g]) /\ b \in ToSet(result[g])

\* a reference grouped with its unchecked neighbour while another neighbour
\* of it stays in an earlier group
C5_Witness ==
    /\ Returned
    /\ \E g \in ResultGroups :
           /\ \E b \in ToSet(result[g]) : b # refs[g]
           /\ \E b \in Images :
                  Dist(refs[g], b) <= sensitivity /\ InEarlierGroup(b, g)

Isolated(i) == \A j \in Images \ {i} : Dist(i, j) > sensitivity

\* C6: an image with no other image within the threshold is in no group and
\* never enters `checked`; if that is so for every image the result is [].
C6_IsolatedNeverGrouped ==
    pc \in {"sweep", "returned"} =>
        /\ \A i \in Images :
               Isolated(i) =>
                   /\ i \notin checked
                   /\ \A g \in Groups : i \notin ToSet(image_groups[g])
        /\ (Returned /\ \A i \in Images : Isolated(i)) => result = <<>>

\* the sweep passed an isolated image and still formed a group
C6_Witness ==
    /\ Returned /\ Len(hash) >= 3 /\ result # <<>>
    /\ \E i \in Images : Isolated(i)

\* C7: with 0 or 1 images the call returns [] without building the index
\* and without modifying any image.
C7_TooFewReturnsEmpty ==
    (calls >= 1 /\ Len(hash) <= 1) =>
        /\ Returned
        /\ result = <<>>
        /\ bkt = NoTree
        /\ difference = diff0

C7_Witness ==
    /\ Returned /\ Len(hash) = 1 /\ calls = 2 /\ sensitivity > 0
    /\ result = <<>>

\* C8: A, B, C with dist(A,B)=3, dist(A,C)=8, dist(B,C)=9 in the order
\* A, B, C with sensitivity 5: one group {A, B}, A.difference = 0,
\* B.difference = 3, C in no group.
C8_Scenario ==
    (Returned /\ hash = <<0, 7, 1017>> /\ sensitivity = 5) =>
        /\ Len(result) = 1
        /\ Len(result[1]) = 2
        /\ ToSet(result[1]) = {1, 2}
        /\ difference[1] = 0
        /\ difference[2] = 3
        /\ \A g \in ResultGroups : 3 \notin ToSet(result[g])

C8_Witness ==
    /\ Returned /\ hash = <<0, 7, 1017>> /\ sensitivity = 5
    /\ Dist(1, 2) = 3 /\ Dist(1, 3) = 8 /\ Dist(2, 3) = 9
    /\ Len(result) = 1

\* C9: with 2 or more images one of which has a fingerprint that is not an
\* integer, the call raises TypeError while the index is built: nothing is
\* returned, no group is formed and no difference is modified.
C9_NonIntegerRaises ==
    (calls >= 1 /\ Len(hash) >= 2 /\ \E i \in Images : hash[i] = NotInt) =>
        /\ pc = "raised"
        /\ result = NoResult
        /\ image_groups = <<>>
        /\ checked = {}
        /\ difference = diff0

\* the non-integer fingerprint is the last image of the input
C9_Witness ==
    /\ pc = "raised" /\ Len(hash) >= 3
    /\ hash[Len(hash)] = NotInt
    /\ \A i \in 1..(Len(hash) - 1) : hash[i] # NotInt

\* C10: load_cache returns an empty mapping and raises nothing when the
\* cache file does not exist; when the file cannot be opened for another
\* reason the OSError reaches the caller and no mapping is returned.
C10_AbsentIsEmptyOtherOSErrorRaised ==
    /\ loaded_from = "absent" =>
           load.raised = "none" /\ load.value = EmptyCache
    /\ loaded_from = "denied" =>
           load.raised = "OSError" /\ ~have_cache

\* a load that found no file, after which entries were cached
C10_Witness ==
    /\ loaded_from = "absent" /\ load.raised = "none"
    /\ cachings >= 1 /\ cached_hashes # EmptyCache /\ file.kind = "pickle"

\* C11: a cache file that exists and cannot be deserialized makes load_cache
\* raise; it never answers with a mapping as it does for a missing file.
C11_CorruptFileRaises ==
    loaded_from \in {"truncated", "garbage"} =>
        /\ load.raised \in {"EOFError", "UnpicklingError"}
        /\ load.raised # "none"

\* a load of the file a dying caching call left behind
C11_Witness ==
    /\ loaded_from = "truncated" /\ load.raised = "EOFError"
    /\ last_call.op = "crash"

Count(seq, p) == Cardinality({k \in DOMAIN seq : seq[k].path = p})
CountPath(seq, p) == Cardinality({k \in DOMAIN seq : seq[k] = p})

\* C12: check_cache puts every input path in exactly one of the two lists,
\* once per occurrence: in `cached` with hash = cache[path] when the path is
\* in the cache, else in `not_cached` with hash None; the cache is unchanged.
C12_CheckCacheTotalSplit ==
    last_call.op = "check_cache" =>
        LET c == last_call IN
        /\ \A p \in Paths :
               /\ Count(c.cached, p) + Count(c.not_cached, p)
                      = CountPath(c.paths, p)
               /\ p \in DOMAIN c.before => Count(c.not_cached, p) = 0
               /\ p \notin DOMAIN c.before => Count(c.cached, p) = 0
        /\ \A k \in DOMAIN c.cached :
               c.cached[k].hash = c.before[c.cached[k].path]
        /\ \A k \in DOMAIN c.not_cached : c.not_cached[k].hash = NotInt
        /\ c.after = c.before

\* a split with a cached path whose fingerprint is 0 and a path not cached
C12_Witness ==
    /\ last_call.op = "check_cache"
    /\ \E k \in DOMAIN last_call.cached : last_call.cached[k].hash = 0
    /\ last_call.not_cached # <<>>

NoNone(cache) == \A p \in DOMAIN cache : cache[p] # NotInt
Hashed(images, p) ==
    {k \in DOMAIN images : images[k].path = p /\ images[k].hash # NotInt}
Last(S) == CHOOSE k \in S : \A j \in S : j <= k
SameEntry(c1, c2, p) ==
    /\ p \in DOMAIN c1 <=> p \in DOMAIN c2
    /\ p \in DOMAIN c1 => c1[p] = c2[p]

\* C13 (as stated): no entry of the cache in memory or on the disk is None,
\* an image with hash None adds and changes nothing, and every image with a
\* hash ends with cache[path] = hash.
C13_NoNoneEveryImageStored ==
    /\ NoNone(cached_hashes)
    /\ file.kind \in {"pickle", "readonly"} => NoNone(file.data)
    /\ last_call.op = "caching" =>
           /\ \A p \in Paths :
                  Hashed(last_call.images, p) = {}
                      => SameEntry(last_call.after, last_call.before, p)
           /\ \A k \in DOMAIN last_call.images :
                  LET image == last_call.images[k] IN
                  image.hash # NotInt =>
                      /\ image.path \in DOMAIN last_call.after
                      /\ last_call.after[image.path] = image.hash

\* C13 (amended): as above, but of several images with the same path and a
\* hash the last one of the list is the one stored.
C13_NoNoneLastImageStored ==
    /\ NoNone(cached_hashes)
    /\ file.kind \in {"pickle", "readonly"} => NoNone(file.data)
    /\ last_call.op = "caching" =>
           \A p \in Paths :
               LET ks == Hashed(last_call.images, p) IN
               IF ks = {}
               THEN SameEntry(last_call.after, last_call.before, p)
               ELSE /\ p \in DOMAIN last_call.after
                    /\ last_call.after[p] = last_call.images[Last(ks)].hash

\* a second caching call, saved, whose list holds an image without hash
\* for a path that is not cached and an image with a hash
C13_Witness ==
    /\ last_call.op = "caching" /\ cachings = 2 /\ save = "ok"
    /\ \E k \in DOMAIN last_call.images :
           /\ last_call.images[k].hash = NotInt
           /\ last_call.images[k].path \notin DOMAIN last_call.after
    /\ \E k \in DOMAIN last_call.images : last_call.images[k].hash # NotInt
    /\ file.data = last_call.after

\* C14 (as stated): caching leaves every entry that is already in the cache
\* with its value.
C14_ExistingEntryKept ==
    last_call.op = "caching" =>
        \A p \in DOMAIN last_call.before :
            /\ p \in DOMAIN last_call.after
            /\ last_call.after[p] = last_call.before[p]

\* C14 (amended): caching leaves every entry that is already in the cache
\* with its value, unless the list holds an image with that path and a hash.
C14_ExistingEntryKeptUnlessHashed ==
    last_call.op = "caching" =>
        \A p \in DOMAIN last_call.before :
            Hashed(last_call.images, p) = {} =>
                /\ p \in DOMAIN last_call.after
                /\ last_call.after[p] = last_call.before[p]

\* a call that stores one path and keeps the entry of another
C14_Witness ==
    /\ last_call.op = "caching"
    /\ \E p, q \in DOMAIN last_call.before :
           /\ Hashed(last_call.images, p) = {}
           /\ Hashed(last_call.images, q) # {}
           /\ last_call.after[q] # last_call.before[q]

\* the mapping `base` updated with the pairs of the images that have a hash
Updated(base, images) ==
    [p \in DOMAIN base \cup {q \in Paths : Hashed(images, q) # {}} |->
        IF Hashed(images, p) # {} THEN images[Last(Hashed(images, p))].hash
        ELSE base[p]]

\* C15: load_cache, one caching call, load_cache again: the second mapping
\* is the first one updated with the (path, hash) pairs of the images that
\* have a hash; the entries of all other paths are those of the first.
C15_RoundTrip ==
    (trip.ok /\ trip.saves = 1 /\ load.raised = "none") =>
        load.value = Updated(trip.base, trip.images)

\* a round trip that keeps an entry, adds one and skips an image without hash
C15_Witness ==
    /\ trip.ok /\ trip.saves = 1 /\ load.raised = "none"
    /\ \E k \in DOMAIN trip.images : trip.images[k].hash = NotInt
    /\ \E p \in DOMAIN trip.base : Hashed(trip.images, p) = {}
    /\ \E p \in Paths \ DOMAIN trip.base : p \in DOMAIN load.value

\* C16: after a crash inside caching the file holds the complete previous
\* mapping or the complete new one.
C16_CrashLeavesOldOrNew ==
    last_call.op = "crash" =>
        LET c == last_call
            r == load_cache(file)
        IN /\ r.raised = "none"
           /\ r.value \in {load_cache(c.prev).value,
                            CachingLoop(c.images, Len(c.images), c.before)}

AllTasksDone == \A k \in DOMAIN task : task[k].st = "done"

\* C17: the cache dictionary and the cache file are written only when every
\* worker of the batch has finished; the file is written at most once, and
\* once when the script has got past a batch.
C17_CacheWrittenAfterWorkers ==
    /\ [][(file_writes' # file_writes \/ cached_hashes' # cached_hashes
              \/ file' # file) => AllTasksDone]_vars
    /\ [](file_writes <= 1)
    /\ [](run_pc \in {"grouping", "stopped"} /\ not_cached # <<>>
              => file_writes = 1)

\* two images were hashed side by side and the cache was written after them
C17_Witness ==
    /\ run_pc = "grouping" /\ Len(task) = 2 /\ file_writes = 1
    /\ \A p \in Paths : hashed[p] = 1
    /\ file.data = cached_hashes /\ cached_hashes # cache0

\* C18: an error while one image is hashed does not end the batch: the
\* image gets hash None and stays out of the cache and of the images to
\* group, every other image of the batch gets its fingerprint.
C18_HashErrorNotFatal ==
    /\ run_error # "HashError"
    /\ run_pc = "grouping" =>
           \A k \in DOMAIN not_cached :
               LET p == not_cached[k].path IN
               IF content[p] \in {NotInt, Undecodable}
               THEN /\ p \notin DOMAIN cached_hashes
                    /\ \A j \in DOMAIN cached : cached[j].path # p
               ELSE /\ p \in DOMAIN cached_hashes
                    /\ cached_hashes[p] = content[p]
                    /\ \E j \in DOMAIN cached :
                           cached[j] = [path |-> p, hash |-> content[p]]

\* C19: Image.dhash is called only for paths that are not in the loaded
\* cache, and once; a path of the loaded cache gets its cached fingerprint
\* and its entry keeps its value in the dictionary and in the file.
C19_CachedNeverRehashed ==
    /\ \A p \in Paths :
           /\ hashed[p] <= 1
           /\ hashed[p] > 0 => p \notin DOMAIN cache0
    /\ run_pc \in {"check", "hashing", "caching", "grouping"} =>
           \A p \in DOMAIN cache0 :
               /\ p \in DOMAIN cached_hashes
               /\ cached_hashes[p] = cache0[p]
               /\ file.data[p] = cache0[p]
    /\ run_pc \in {"hashing", "caching", "grouping"} =>
           \A k \in DOMAIN paths :
               paths[k] \in DOMAIN cache0 =>
                   \E j \in DOMAIN cached :
                       cached[j] = [path |-> paths[k],
                                    hash |-> cache0[paths[k]]]

\* a run over a cached image with fingerprint 0 and a new image
C19_Witness ==
    /\ run_pc = "grouping" /\ file_writes = 1
    /\ \E p \in DOMAIN cache0 : cache0[p] = 0 /\ hashed[p] = 0
    /\ \E p \in Paths : hashed[p] = 1 /\ p \in DOMAIN cached_hashes
    /\ Len(cached) = 2

C23_ReferenceIsFirstMember ==
    \A g \in Groups :
        /\ refs[g] \in ToSet(image_groups[g])
        /\ \A m \in ToSet(image_groups[g]) : m >= refs[g]

\* a group with a later member whose reference also had an earlier image
\* within the threshold
C23_Witness ==
    /\ Returned
    /\ \E g \in ResultGroups :
           /\ \E m \in ToSet(result[g]) : m > refs[g]
           /\ \E j \in Images :
                  j < refs[g] /\ Dist(j, refs[g]) <= sensitivity

\* C24: a call makes one pass over the images and returns: the loop position
\* only advances, at most one index query is issued per image, none for an
\* image that is in `checked` when its turn comes, and every call that
\* started its sweep returns.
C24_SinglePassTerminates ==
    /\ [](\A i \in Images : queries[i] <= 1)
    /\ [][\A i \in Images :
              (pc = "sweep" /\ queries'[i] > queries[i])
                  => i = pos /\ i \notin checked]_vars
    /\ [][(pc = "sweep" /\ pc' = "sweep") => pos' = pos + 1]_vars
    /\ [](pc = "sweep" => pos <= Len(hash) + 1)
    /\ (pc = "sweep") ~> (pc = "returned")

\* a returned call that skipped a checked image and queried the others
C24_Witness ==
    /\ Returned /\ Len(hash) >= 3
    /\ \E i \in Images : queries[i] = 0 /\ i \in checked
    /\ \E i \in Images : queries[i] = 1 /\ i \notin checked

\* C25: after the call returns, every member of a group has a difference
\* <= sensitivity, and any two members of a group are at Hamming distance
\* <= 2 * sensitivity from each other (they need not be within sensitivity
\* of each other: see the witness).
C25_GroupDiameter ==
    Returned =>
        \A g \in ResultGroups :
            /\ \A m \in ToSet(result[g]) : difference[m] <= sensitivity
            /\ \A m1, m2 \in ToSet(result[g]) :
                   Dist(m1, m2) <= 2 * sensitivity

\* a group with two members farther than the threshold from each other
C25_Witness ==
    /\ Returned /\ sensitivity > 0
    /\ \E g \in ResultGroups : \E m1, m2 \in ToSet(result[g]) :
           /\ Dist(m1, m2) > sensitivity
           /\ Dist(m1, refs[g]) <= sensitivity
           /\ Dist(m2, refs[g]) <= sensitivity

\* the image under the loop has other images within the threshold and all
\* of them are already checked
OnlyCheckedNeighbours ==
    /\ pc = "sweep" /\ pos <= Len(hash) /\ pos \notin checked
    /\ \E j \in Images \ {pos} : Dist(j, pos) <= sensitivity
    /\ \A j \in Images \ {pos} : Dist(j, pos) <= sensitivity => j \in checked

\* C26: when the query of an unchecked image returns other images within
\* the threshold and all of them are already checked, the step appends a
\* group that contains only that image and marks the image checked.
C26_SingletonGroupAppended ==
    [][OnlyCheckedNeighbours =>
          /\ image_groups' = Append(image_groups, <<pos>>)
          /\ checked' = checked \cup {pos}]_vars

\* a returned result with a one-image group whose reference had checked
\* neighbours only
C26_Witness ==
    /\ Returned
    /\ \E g \in ResultGroups :
           /\ result[g] = <<refs[g]>>
           /\ refs[g] \in checked
           /\ \E j \in checked_before[g] : Dist(j, refs[g]) <= sensitivity

\* image_grouping on records that no call has touched: the sweep from
\* position p on, st being the local state [groups, checked, difference]
RECURSIVE FreshSweep(_, _, _, _, _)
FreshSweep(h, s, t, p, st) ==
    IF p > Len(h) THEN st
    ELSE IF p \in st.checked THEN FreshSweep(h, s, t, p + 1, st)
    ELSE LET cl == BKTreeFind(h, t, p, s) IN
         IF OnlyItself(cl) THEN FreshSweep(h, s, t, p + 1, st)
         ELSE LET ng == new_group(cl, st.checked, st.difference)
              IN FreshSweep(h, s, t, p + 1,
                            [groups |-> Append(st.groups, ng.group),
                             checked |-> ng.checked,
                             difference |-> ng.difference])

FreshCall(h, s) ==
    LET st0 == [groups |-> <<>>, checked |-> {},
                difference |-> [i \in 1..Len(h) |-> 0]]
    IN IF TooFewImages(Len(h)) THEN st0
       ELSE FreshSweep(h, s, BKTree(h, Len(h)), 1, st0)

\* C27: the groups a call returns and the differences of the grouped images
\* are those of a call on fresh records with the same input sequence,
\* fingerprints and sensitivity, whatever calls were made on the records
\* before.
C27_CallsIndependent ==
    Returned =>
        LET fresh == FreshCall(hash, sensitivity) IN
        /\ result = fresh.groups
        /\ \A g \in ResultGroups : \A m \in ToSet(result[g]) :
               difference[m] = fresh.difference[m]

\* a second call that formed groups on records whose differences an earlier
\* call had set to other values
C27_Witness ==
    /\ Returned /\ calls = 2
    /\ Len(result) >= 2
    /\ \E g \in ResultGroups : \E m \in ToSet(result[g]) :
           diff0[m] # 0 /\ diff0[m] # difference[m]

CorePartition == {ToSet(result[g]) : g \in ResultGroups}
DupPartition == {ToSet(dup_result[g]) : g \in DOMAIN dup_result}
BothReturned == pc = "returned" /\ dup_pc = "returned" /\ dup_call = calls

\* A, B, C with dist(A,B) <= s, dist(B,C) <= s and dist(A,C) > s
Chain(a, b, c) ==
    /\ Dist(a, b) <= sensitivity
    /\ Dist(b, c) <= sensitivity
    /\ Dist(a, c) > sensitivity

\* C28 (as stated): on every input that contains three images A, B, C with
\* dist(A,B) <= s, dist(B,C) <= s and dist(A,C) > s, in every input order,
\* the two groupings return different partitions.
C28_PartitionsDiffer ==
    (BothReturned /\ \E a, b, c \in Images : Chain(a, b, c))
        => CorePartition # DupPartition

\* C28 (amended): on an input of exactly three images A, B, C with
\* dist(A,B) <= s, dist(B,C) <= s and dist(A,C) > s, the two groupings
\* return different partitions if and only if B is not the first image of
\* the input.
C28_PartitionsDifferUnlessMiddleFirst ==
    (BothReturned /\ Len(hash) = 3) =>
        \A a, b, c \in Images :
            Chain(a, b, c) => ((CorePartition # DupPartition) <=> (b # 1))

\* A, C, B in this order: the sweep splits them, the chaining joins them
C28_Witness ==
    /\ BothReturned /\ Len(hash) = 3
    /\ Chain(1, 3, 2)
    /\ CorePartition = {{1, 3}, {2}}
    /\ DupPartition = {{1, 2, 3}}

Running == workers # <<>>

\* C21: the Start button is never enabled while an image-processing run is
\* in progress (after startBtn_click and before processing_finished).
C21_StartDisabledWhileRunning ==
    Running => ~enabled["startBtn"]

\* C22: an empty folder list implies a disabled Start button.
C22_EmptyListStartDisabled ==
    pathList = 0 => ~enabled["startBtn"]

\* C29: the Move, Delete and Unselect buttons and their menu actions are
\* enabled if and only if at least one duplicate widget is selected.
C29_ImageButtonsIffSelected ==
    \A b \in ImageBtns : enabled[b] <=> hasSelectedWidgets(form)

\* p comes before q in the order of the two loops
Before(p, q) == p[1] < q[1] \/ (p[1] = q[1] /\ p[2] < q[2])

====
